---------------------------- MODULE Spec2Model ----------------------------
(***************************************************************************)
(* AcuityCheck (billie8383/AcuityCheck): the measurement-and-calibration   *)
(* pipeline of app.py and the acuitycheck package.                         *)
(*                                                                         *)
(* Python floats are modelled as exact rationals <<n, d>> (d > 0, lowest   *)
(* terms); None is the empty tuple.  Strings that the code indexes or      *)
(* builds (chart lines, style names) are sequences of one-character        *)
(* strings.                                                                *)
(***************************************************************************)
EXTENDS Integers, Sequences, FiniteSets, TLC

VARIABLES
    session_state,   \* st.session_state: f_px, eye_to_screen_mm, card_ppm
    widgets,         \* values the widgets return in the current rerun
    models_present,  \* whether YUNET_PATH exists on disk
    run,             \* locals of the last rerun of main(): pixel_ipd, messages, ...
    geo,             \* inputs/outputs of the geometry functions (SpecGeometry)
    lines,           \* inputs/outputs of build_chart_lines (SpecLines)
    detection,       \* inputs/outputs of the two detectors (SpecDetection)
    sizes            \* inputs/outputs of the optotype sizing (SpecSizing)

vars == <<session_state, widgets, models_present, run, geo, lines, detection, sizes>>

----------------------------------------------------------------------------
(* Python values                                                           *)

None == <<>>

Abs(n) == IF n < 0 THEN -n ELSE n

RECURSIVE GCD(_, _)
GCD(a, b) == IF b = 0 THEN a ELSE GCD(b, a % b)

\* the rational n/d in lowest terms with a positive denominator
Norm(n, d) ==
    LET s == IF d < 0 THEN -1 ELSE 1
        g == GCD(Abs(n), Abs(d))
    IN  <<(s * n) \div g, (s * d) \div g>>

R(n) == <<n, 1>>

RMul(a, b) ==
    LET g1 == GCD(Abs(a[1]), b[2])
        g2 == GCD(Abs(b[1]), a[2])
    IN  Norm((a[1] \div g1) * (b[1] \div g2), (a[2] \div g2) * (b[2] \div g1))

\* a / b for b # 0 (Python raises ZeroDivisionError otherwise)
RDiv(a, b) == RMul(a, Norm(b[2], b[1]))

RSub(a, b) ==
    LET g == GCD(a[2], b[2])
    IN  Norm(a[1] * (b[2] \div g) - b[1] * (a[2] \div g), (a[2] \div g) * b[2])

RAdd(a, b) == RSub(a, <<-b[1], b[2]>>)

\* a < b, compared over the least common denominator
RLess(a, b) ==
    LET g == GCD(a[2], b[2])
    IN  a[1] * (b[2] \div g) < b[1] * (a[2] \div g)

\* Python max(a, b): the first argument unless the second is strictly larger
RMax(a, b) == IF RLess(a, b) THEN b ELSE a

\* Python truthiness of an optional float: None and 0.0 are falsy
Truthy(v) == v # None /\ v[1] # 0


----------------------------------------------------------------------------
(* acuitycheck/geometry.py and the focal-length formula of app.py          *)

\* the divisor floor 1e-6 of compute_distance_mm
EPSILON == <<1, 1000000>>

\* the calibration formula with the two distances exchanged
focal_length_px_swapped(pixel_ipd, known_mm, ipd_mm) ==
    RDiv(RMul(pixel_ipd, ipd_mm), known_mm)

\* app.py line 325: (pixel_ipd * S["known_mm"]) / S["ipd_mm"]
focal_length_px(pixel_ipd, known_mm, ipd_mm) ==
    RDiv(RMul(pixel_ipd, known_mm), ipd_mm)

\* the divisor of compute_distance_mm: max(1e-6, float(pixel_ipd))
ipd_divisor(pixel_ipd) == RMax(EPSILON, pixel_ipd)

\* the eye-to-screen distance without its floor at 0.0
eye_to_screen_noclamp(cam_to_eye, offset_mm) == RSub(cam_to_eye, RMax(R(0), offset_mm))

\* line 36 of compute_distance_mm: max(0.0, cam_to_eye - max(0.0, float(offset_mm)))
eye_to_screen_of(cam_to_eye, offset_mm) ==
    RMax(R(0), RSub(cam_to_eye, RMax(R(0), offset_mm)))

\* compute_distance_mm: <<cam_to_eye, eye_to_screen>>
compute_distance_mm(pixel_ipd, ipd_mm, f_px, offset_mm) ==
    LET cam_to_eye == RDiv(RMul(ipd_mm, f_px), ipd_divisor(pixel_ipd))
    IN  <<cam_to_eye, eye_to_screen_of(cam_to_eye, offset_mm)>>

----------------------------------------------------------------------------
(* build_chart_lines, as written in app.py and in acuitycheck/ui.py        *)

UPPER == <<"A", "B", "C", "D", "E", "F", "G", "H", "I", "J", "K", "L", "M", "N", "O", "P", "Q", "R", "S", "T", "U", "V", "W", "X", "Y", "Z">>
LOWER == <<"a", "b", "c", "d", "e", "f", "g", "h", "i", "j", "k", "l", "m", "n", "o", "p", "q", "r", "s", "t", "u", "v", "w", "x", "y", "z">>

\* str.lower() on one character
LowerChar(c) ==
    IF \E k \in DOMAIN UPPER : UPPER[k] = c
    THEN LOWER[CHOOSE k \in DOMAIN UPPER : UPPER[k] = c]
    ELSE c

\* str.lower()
Lower(s) == [k \in DOMAIN s |-> LowerChar(s[k])]

\* str.replace(old, new) for one-character old and new
Replace(s, old, new) == [k \in DOMAIN s |-> IF s[k] = old THEN new ELSE s[k]]

\* s * n: the string s repeated n times
RECURSIVE Repeat(_, _)
Repeat(s, n) == IF n <= 0 THEN <<>> ELSE s \o Repeat(s, n - 1)

Min(a, b) == IF a < b THEN a ELSE b
Max(a, b) == IF a > b THEN a ELSE b

CLASSIC_SNELLEN == <<"c", "l", "a", "s", "s", "i", "c", " ", "s", "n", "e", "l", "l", "e", "n">>
SINGLE_LETTER == <<"s", "i", "n", "g", "l", "e", " ", "l", "e", "t", "t", "e", "r">>

\* the list `classic` of app.py, lines 85-94
classic_app ==
    << <<"E">>,
       <<"F", "P">>,
       <<"T", "O", "Z">>,
       <<"L", "P", "E", "D">>,
       <<"P", "E", "C", "F", "D">>,
       <<"E", "D", "F", "C", "Z", "P">>,
       Replace(<<"F", "E", "L", "0", "P", "Z", "D">>, "0", "O"),
       <<"D", "E", "F", "P", "O", "T", "E", "C">> >>

\* the list `classic_snellen` of ui.py, lines 114-123
classic_ui ==
    << <<"E">>,
       <<"F", "P">>,
       <<"T", "O", "Z">>,
       <<"L", "P", "E", "D">>,
       <<"P", "E", "C", "F", "D">>,
       <<"E", "D", "F", "C", "Z", "P">>,
       <<"F", "E", "L", "O", "P", "Z", "D">>,
       <<"D", "E", "F", "P", "O", "T", "E", "C">> >>

base_letters == <<"C", "D", "H", "K", "N", "O", "R", "S", "V", "Z">>

\* the classic branch starting over from the first line past the last one
classic_lines_cycling(classic, n) ==
    [k \in 1..n |-> classic[((k - 1) % Len(classic)) + 1]]

\* the classic branch: classic[:n] when n <= len(classic), else the last line repeated
classic_lines(classic, n) ==
    IF n <= Len(classic)
    THEN SubSeq(classic, 1, n)
    ELSE classic \o [k \in 1..(n - Len(classic)) |-> classic[Len(classic)]]

\* the letter count without its clamp
letters_in_line_unclamped(i) == 2 + i

\* letters per line, i 0-indexed: max(2, min(10, 2 + i))
letters_in_line(i) == Max(2, Min(10, 2 + i))

\* the single-letter branch
single_letter_lines(single_letter, n) ==
    [k \in 1..n |-> Repeat(single_letter, letters_in_line(k - 1))]

\* the default (Sloan mix) branch: base_letters[(j + i) % len(base_letters)]
sloan_letter(i, j) == base_letters[((j + i) % Len(base_letters)) + 1]

sloan_lines(n) ==
    [k \in 1..n |-> [j \in 1..letters_in_line(k - 1) |-> sloan_letter(k - 1, j - 1)]]

\* app.py build_chart_lines; denominators only contribute their length
build_chart_lines_app(chart_style, denominators, single_letter) ==
    LET style == Lower(chart_style)
        n == Len(denominators)
    IN  IF style = CLASSIC_SNELLEN THEN classic_lines(classic_app, n)
        ELSE IF style = SINGLE_LETTER THEN single_letter_lines(single_letter, n)
        ELSE sloan_lines(n)

\* acuitycheck/ui.py build_chart_lines
build_chart_lines_ui(chart_style, denominators, single_letter) ==
    LET style == Lower(chart_style)
        n == Len(denominators)
    IN  IF style = CLASSIC_SNELLEN THEN classic_lines(classic_ui, n)
        ELSE IF style = SINGLE_LETTER THEN single_letter_lines(single_letter, n)
        ELSE sloan_lines(n)

----------------------------------------------------------------------------
(* acuitycheck/snellen.py                                                  *)

\* the factor 0.001454 of the 5-arcminute rule
ARCMIN5_FACTOR == <<727, 500000>>

\* the letter height shrinking as the denominator grows
snellen_letter_height_mm_inverse(distance_mm, snellen_den) ==
    RMul(RMul(distance_mm, ARCMIN5_FACTOR), RDiv(R(6), R(snellen_den)))

\* snellen_letter_height_mm: float(distance_mm) * 0.001454 * (float(snellen_den) / 6.0)
snellen_letter_height_mm(distance_mm, snellen_den) ==
    RMul(RMul(distance_mm, ARCMIN5_FACTOR), RDiv(R(snellen_den), R(6)))

DIGITS == <<"0", "1", "2", "3", "4", "5", "6", "7", "8", "9">>

\* str(n) for n >= 0
RECURSIVE IntToStr(_)
IntToStr(n) ==
    IF n < 10 THEN <<DIGITS[n + 1]>> ELSE IntToStr(n \div 10) \o <<DIGITS[(n % 10) + 1]>>

\* f"6/{int(den)}"
snellen_label(den) == <<"6", "/">> \o IntToStr(den)

\* build_snellen_lines: one <<label, letter_size_px>> per denominator
build_snellen_lines(distance_mm, pixels_per_mm, denominators) ==
    [k \in DOMAIN denominators |->
        <<snellen_label(denominators[k]),
          RMul(snellen_letter_height_mm(distance_mm, denominators[k]), pixels_per_mm)>>]

----------------------------------------------------------------------------
(* acuitycheck/detection.py                                                *)
(*                                                                         *)
(* A frame carries what the OpenCV calls return for it: `faces`, the rows  *)
(* detector.detect yields under the configured threshold (15 numbers each: *)
(* box x, y, w, h; five keypoints; score), `raises`, whether creating or   *)
(* running the detector throws, `cascade`, how the eye cascade behaves     *)
(* ("ok"; "raises": building the classifier throws; "empty": the cascade   *)
(* file does not load, so the classifier is empty and detectMultiScale     *)
(* throws), and `eyes`, the rectangles (ex, ey, ew, eh) detectMultiScale   *)
(* reports, relative to the region of interest it is given.                *)

\* an exception leaving the function
Raised == [exception |-> "cv2.error"]

\* the candidate picked without looking at the scores
argmax_score_first(faces) == 1

\* np.argmax over column 14: the first index holding the maximum score
argmax_score(faces) ==
    CHOOSE i \in DOMAIN faces :
        /\ \A k \in DOMAIN faces : ~RLess(faces[i][15], faces[k][15])
        /\ \A k \in DOMAIN faces : faces[k][15] = faces[i][15] => i <= k

\* run_yunet_cv2 handing back the box without its keypoints
run_yunet_cv2_box_only(frame, model_exists) ==
    IF ~model_exists THEN <<None, None>>
    ELSE IF frame.raises THEN <<None, None>>
    ELSE IF Len(frame.faces) = 0 THEN <<None, None>>
    ELSE LET best_face == frame.faces[argmax_score(frame.faces)]
         IN  <<SubSeq(best_face, 1, 4), <<>>>>

\* run_yunet_cv2: <<face_box, keypoints>>, or <<None, None>>
run_yunet_cv2(frame, model_exists) ==
    IF ~model_exists THEN <<None, None>>
    ELSE IF frame.raises THEN <<None, None>>
    ELSE IF Len(frame.faces) = 0 THEN <<None, None>>
    ELSE LET best_face == frame.faces[argmax_score(frame.faces)]
             face_box == <<best_face[1], best_face[2], best_face[3], best_face[4]>>
             keypoints == [k \in 1..5 |-> <<best_face[3 + 2 * k], best_face[4 + 2 * k]>>]
         IN  <<face_box, keypoints>>

\* int(v): truncation toward zero
IntOf(v) == IF v[1] >= 0 THEN v[1] \div v[2] ELSE -((-v[1]) \div v[2])

\* where a slice bound lands on an axis of n elements: a negative bound counts
\* from the end, and every bound is clipped to 0..n
slice_bound(i, n) == IF i < 0 THEN Max(0, i + n) ELSE Min(i, n)

\* gray_frame[y : y + h, x : x + w]: <<first column, first row, columns, rows>>
roi_of(frame, box) ==
    LET x == IntOf(box[1])
        y == IntOf(box[2])
        w == IntOf(box[3])
        h == IntOf(box[4])
        x0 == slice_bound(x, frame.width)
        y0 == slice_bound(y, frame.height)
    IN  <<x0, y0, Max(0, slice_bound(x + w, frame.width) - x0),
          Max(0, slice_bound(y + h, frame.height) - y0)>>

\* sorted(eyes, key=area, reverse=True): stable, largest area first
RECURSIVE sorted_by_area_desc(_)
sorted_by_area_desc(eyes) ==
    IF Len(eyes) = 0 THEN <<>>
    ELSE LET i == CHOOSE i \in DOMAIN eyes :
                    /\ \A k \in DOMAIN eyes : eyes[k][3] * eyes[k][4] <= eyes[i][3] * eyes[i][4]
                    /\ \A k \in DOMAIN eyes :
                          eyes[k][3] * eyes[k][4] = eyes[i][3] * eyes[i][4] => i <= k
             rest == [k \in 1..(Len(eyes) - 1) |-> IF k < i THEN eyes[k] ELSE eyes[k + 1]]
         IN  <<eyes[i]>> \o sorted_by_area_desc(rest)

\* sorted(points, key=lambda p: p[0]) for two points (stable)
sorted_by_x(points) ==
    IF RLess(points[2][1], points[1][1]) THEN <<points[2], points[1]>> ELSE points

\* detect_eyes_in_roi: two eye centres, None, or Raised when detectMultiScale
\* (line 116, outside the try block) throws
detect_eyes_in_roi(frame, box) ==
    LET x == IntOf(box[1])
        y == IntOf(box[2])
        roi == roi_of(frame, box)
    IN  IF roi[3] * roi[4] = 0 THEN None
        ELSE IF frame.cascade = "raises" THEN None
        ELSE IF frame.cascade = "empty" THEN Raised
        ELSE IF Len(frame.eyes) < 2 THEN None
        ELSE LET eyes == SubSeq(sorted_by_area_desc(frame.eyes), 1, 2)
                 eye_centres ==
                     [k \in 1..2 |->
                         <<RAdd(R(x + eyes[k][1]), Norm(eyes[k][3], 2)),
                           RAdd(R(y + eyes[k][2]), Norm(eyes[k][4], 2))>>]
             IN  sorted_by_x(eye_centres)

\* np.hypot(dx, dy), for the frames of the model, whose distances are rational
Hypot(dx, dy) ==
    LET a == Abs(dx[1]) * dy[2]
        b == Abs(dy[1]) * dx[2]
        r == CHOOSE r \in 0..(a + b) : r * r = a * a + b * b
    IN  Norm(r, dx[2] * dy[2])

\* app.py lines 298-309: the pixel IPD from the two detectors; `fallback` tells
\* whether detect_eyes_in_roi was called, `raised` whether it threw
estimate_pixel_ipd(frame, model_exists) ==
    LET det == run_yunet_cv2(frame, model_exists)
        box == det[1]
        det_kps == det[2]
    IN  IF det_kps # None /\ Len(det_kps) >= 2
        THEN LET pair == sorted_by_x(SubSeq(det_kps, 1, 2))
                 le == pair[1]
                 re == pair[2]
             IN  [pixel_ipd |-> Hypot(RSub(le[1], re[1]), RSub(le[2], re[2])),
                  box |-> box, pts |-> det_kps, fallback |-> FALSE, raised |-> FALSE]
        ELSE IF box # None
        THEN LET eyes == detect_eyes_in_roi(frame, box)
             IN  IF eyes = Raised
                 THEN [pixel_ipd |-> None, box |-> box, pts |-> None,
                       fallback |-> TRUE, raised |-> TRUE]
                 ELSE IF eyes # None /\ Len(eyes) >= 2
                 THEN [pixel_ipd |-> Hypot(RSub(eyes[1][1], eyes[2][1]),
                                           RSub(eyes[1][2], eyes[2][2])),
                       box |-> box, pts |-> eyes, fallback |-> TRUE, raised |-> FALSE]
                 ELSE [pixel_ipd |-> None, box |-> box, pts |-> None,
                       fallback |-> TRUE, raised |-> FALSE]
        ELSE [pixel_ipd |-> None, box |-> box, pts |-> None,
              fallback |-> FALSE, raised |-> FALSE]

----------------------------------------------------------------------------
(* app.py main(): one rerun of the script                                  *)

\* acuitycheck.CARD_W_MM, the ISO/IEC 7810 ID-1 card width 85.6 mm
CARD_W_MM == <<428, 5>>

\* the fallback viewing distance of the chart tab
DEFAULT_DISTANCE_MM == 3000

\* the denominators of the chart tab
DENOMINATORS == <<60, 48, 36, 24, 18, 12, 9, 6>>

MSG_NO_EYES == "error: Could not estimate eyes."
MSG_PIXEL_IPD == "success: Pixel IPD"
MSG_SNAPSHOT_FIRST == "warning: Take a snapshot first."
MSG_CALIBRATED == "success: Calibrated focal length"
MSG_DISTANCE == "info: FOV / Eye -> screen"
MSG_NOT_CALIBRATED == "warning: Not calibrated yet"
MSG_EXCEPTION == "exception: cv2.error"

\* card_calibration that also drops the measured distance
card_calibration_resetting(sess, width_px) ==
    [sess EXCEPT !.card_ppm = RDiv(R(width_px), CARD_W_MM), !.eye_to_screen_mm = None]

\* Step 1 (lines 275-286): card_ppm = width_px / CARD_W_MM into the session
card_calibration(sess, width_px) ==
    [sess EXCEPT !.card_ppm = RDiv(R(width_px), CARD_W_MM)]

\* calibrate_focal without its guard: a missing pixel IPD is taken as 0.0
calibrate_focal_unguarded(sess, pixel_ipd, S) ==
    [sess EXCEPT !.f_px = focal_length_px(IF pixel_ipd = None THEN R(0) ELSE pixel_ipd,
                                          R(S.known_mm), R(S.ipd_mm))]

\* calibrate_focal dropping the focal length when there is no pixel IPD
calibrate_focal_forgetting(sess, pixel_ipd, S) ==
    IF pixel_ipd = None
    THEN [sess EXCEPT !.f_px = None]
    ELSE [sess EXCEPT !.f_px = focal_length_px(pixel_ipd, R(S.known_mm), R(S.ipd_mm))]

\* the body of `if st.button("Calibrate f ...")` (lines 322-326)
calibrate_focal(sess, pixel_ipd, S) ==
    IF pixel_ipd = None
    THEN sess
    ELSE [sess EXCEPT !.f_px = focal_length_px(pixel_ipd, R(S.known_mm), R(S.ipd_mm))]

calibrate_messages(pixel_ipd) ==
    IF pixel_ipd = None THEN {MSG_SNAPSHOT_FIRST} ELSE {MSG_CALIBRATED}

\* live_distance that forgets the stored distance when the frame gives no pixel IPD
live_distance_clearing(sess, pixel_ipd, S) ==
    IF Truthy(sess.f_px) /\ pixel_ipd # None
    THEN [sess EXCEPT !.eye_to_screen_mm =
              compute_distance_mm(pixel_ipd, R(S.ipd_mm), sess.f_px, R(S.offset_mm))[2]]
    ELSE [sess EXCEPT !.eye_to_screen_mm = None]

\* live_distance left out of the rerun in which the button was clicked
live_distance_after_click(sess, pixel_ipd, S) ==
    IF ~S.button /\ Truthy(sess.f_px) /\ pixel_ipd # None
    THEN [sess EXCEPT !.eye_to_screen_mm =
              compute_distance_mm(pixel_ipd, R(S.ipd_mm), sess.f_px, R(S.offset_mm))[2]]
    ELSE sess

\* "Live distance/FOV if calibrated" (lines 329-334); frame_bgr is never None here
live_distance(sess, pixel_ipd, S) ==
    IF Truthy(sess.f_px) /\ pixel_ipd # None
    THEN [sess EXCEPT !.eye_to_screen_mm =
              compute_distance_mm(pixel_ipd, R(S.ipd_mm), sess.f_px, R(S.offset_mm))[2]]
    ELSE sess

\* live_messages that shows the notice whenever no distance was computed
live_messages_always(sess, pixel_ipd) ==
    IF Truthy(sess.f_px) /\ pixel_ipd # None THEN {MSG_DISTANCE} ELSE {MSG_NOT_CALIBRATED}

\* the messages of lines 329-336
live_messages(sess, pixel_ipd) ==
    IF Truthy(sess.f_px) /\ pixel_ipd # None THEN {MSG_DISTANCE}
    ELSE IF ~Truthy(sess.f_px) THEN {MSG_NOT_CALIBRATED}
    ELSE {}

\* chart_distance testing `is None` instead of truthiness
chart_distance_is_none(sess) ==
    IF sess.eye_to_screen_mm # None THEN sess.eye_to_screen_mm ELSE R(DEFAULT_DISTANCE_MM)

\* Step 3 (lines 344-351): st.session_state.get("eye_to_screen_mm") or 3000.0
chart_distance(sess) ==
    IF Truthy(sess.eye_to_screen_mm) THEN sess.eye_to_screen_mm ELSE R(DEFAULT_DISTANCE_MM)

\* Step 3 (line 343): float(st.session_state.get("card_ppm", 0)) or 0.0
chart_card_ppm(sess) == IF sess.card_ppm = None THEN R(0) ELSE sess.card_ppm

\* Step 3 (lines 354-358): the rows (label, px) handed to render_chart
letter_px_sizes(sess) ==
    [k \in DOMAIN DENOMINATORS |->
        <<snellen_label(DENOMINATORS[k]),
          RMul(snellen_letter_height_mm(chart_distance(sess), DENOMINATORS[k]),
               chart_card_ppm(sess))>>]

\* the detection result when Step 2 is skipped (no snapshot, or no model file)
no_detection ==
    [pixel_ipd |-> None, box |-> None, pts |-> None, fallback |-> FALSE, raised |-> FALSE]

\* the messages of Step 2, given the session s2 as the calibrate button left it
tab2_messages(s2, W, active, pixel_ipd) ==
    IF ~active THEN {}
    ELSE (IF pixel_ipd = None THEN {MSG_NO_EYES} ELSE {MSG_PIXEL_IPD})
         \cup (IF W.button THEN calibrate_messages(pixel_ipd) ELSE {})
         \cup live_messages(s2, pixel_ipd)

\* Step 3 (lines 339-367) and the locals of the rerun
main_chart(s3, messages, W, active, det) ==
    [session |-> s3,
     run |-> [ran |-> TRUE,
              active |-> active,
              pixel_ipd |-> det.pixel_ipd,
              fallback |-> det.fallback,
              clicked |-> active /\ W.button,
              messages |-> messages,
              distance_mm |-> chart_distance(s3),
              letter_lines |->
                  build_chart_lines_app(W.chart_style, DENOMINATORS, W.single_letter)]]

\* lines 328-336, on the session s2 as the calibrate button left it
main_live(s2, W, active, det) ==
    main_chart(IF active THEN live_distance(s2, det.pixel_ipd, W) ELSE s2,
               tab2_messages(s2, W, active, det.pixel_ipd), W, active, det)

\* the rerun when detect_eyes_in_roi throws at line 305: the script stops there,
\* with only Step 1 done
main_aborted(s1, active, det) ==
    [session |-> s1,
     run |-> [ran |-> TRUE,
              active |-> active,
              pixel_ipd |-> None,
              fallback |-> det.fallback,
              clicked |-> FALSE,
              messages |-> {MSG_EXCEPTION},
              distance_mm |-> None,
              letter_lines |-> <<>>]]

\* lines 319-326, on the session s1 and the detection of this rerun
main_calibrate(s1, W, active, det) ==
    IF det.raised
    THEN main_aborted(s1, active, det)
    ELSE main_live(IF active /\ W.button THEN calibrate_focal(s1, det.pixel_ipd, W) ELSE s1,
                   W, active, det)

\* lines 289-317: Step 2 runs only with a snapshot and the model file
main_detect(s1, W, active, models_ready) ==
    main_calibrate(s1, W, active,
                   IF active THEN estimate_pixel_ipd(W.snap, models_ready) ELSE no_detection)

\* main(): the session after the rerun and the locals it computed
main(sess, W, models_ready) ==
    main_detect(card_calibration(sess, W.width_px), W,
                W.snap.present /\ models_ready, models_ready)

----------------------------------------------------------------------------
(* Inputs of the model                                                     *)

STYLE_SLOAN == <<"S", "l", "o", "a", "n", " ", "m", "i", "x">>
STYLE_CLASSIC == <<"C", "l", "a", "s", "s", "i", "c", " ", "S", "n", "e", "l", "l", "e", "n">>
STYLE_SINGLE == <<"S", "i", "n", "g", "l", "e", " ", "l", "e", "t", "t", "e", "r">>

\* the chart styles of the selectbox (line 137)
ChartStyles == {STYLE_SLOAN, STYLE_CLASSIC, STYLE_SINGLE}

\* card-width slider positions (80..600, default 220)
WidthValues == {220, 600}

\* assumed IPD (40..80 mm), camera-to-screen offset (0..150 mm) and known
\* camera-to-eye distance (200..2000 mm) as entered in the sidebar
IpdValues == {40, 50}
OffsetValues == {40, 150}
KnownValues == {200, 300}

\* one detector row of floats: box, right eye, left eye, nose, mouth corners,
\* score (in hundredths)
Face(rx, ry, lx, ly, score) ==
    <<R(100), R(50), R(80), R(80), rx, ry, lx, ly, R(140), R(100), R(125), R(120),
      R(155), R(120), Norm(score, 100)>>

NoSnap == [present |-> FALSE, width |-> 0, height |-> 0, faces |-> <<>>,
           raises |-> FALSE, cascade |-> "ok", eyes |-> <<>>]

Snap(faces, raises) ==
    [present |-> TRUE, width |-> 640, height |-> 480, faces |-> faces,
     raises |-> raises, cascade |-> "ok", eyes |-> <<>>]

\* snapshots: no face; eyes 5 px apart (a 3-4-5 offset, right eye listed first);
\* eyes 3 px apart, outscoring a second candidate; coinciding eyes; eyes half a
\* millionth of a pixel apart, below the divisor floor of compute_distance_mm
Frames ==
    { Snap(<<>>, FALSE),
      Snap(<<Face(R(143), R(84), R(140), R(80), 90)>>, FALSE),
      Snap(<<Face(R(120), R(80), R(125), R(80), 40),
             Face(R(120), R(80), R(123), R(80), 70)>>, FALSE),
      Snap(<<Face(R(130), R(80), R(130), R(80), 60)>>, FALSE),
      Snap(<<Face(<<1, 2000000>>, R(0), R(0), R(0), 80)>>, FALSE) }

----------------------------------------------------------------------------
(* The session: reruns of main() triggered by one widget at a time         *)

\* the values the geometry and chart-line specifications leave untouched
GeoIdle == [phase |-> "idle"]
LinesIdle == [phase |-> "idle"]
DetIdle == [phase |-> "idle"]
SizesIdle == [phase |-> "idle"]
NoRun == [ran |-> FALSE, active |-> FALSE, pixel_ipd |-> None, fallback |-> FALSE,
          clicked |-> FALSE, messages |-> {}, distance_mm |-> None, letter_lines |-> <<>>]

\* session defaults (lines 26-29); card_ppm is absent until the first rerun.  The
\* sidebar inputs start at any of their values; the chart widgets stay at their
\* defaults here, build_chart_lines being exercised over all styles in SpecLines.
Init ==
    /\ session_state = [f_px |-> None, eye_to_screen_mm |-> None, card_ppm |-> None]
    /\ widgets \in [width_px : WidthValues, snap : {NoSnap}, ipd_mm : IpdValues,
                    offset_mm : OffsetValues, known_mm : KnownValues,
                    chart_style : {STYLE_SLOAN}, single_letter : {<<"A">>},
                    button : {FALSE}]
    /\ models_present \in BOOLEAN
    /\ run = NoRun
    /\ geo = GeoIdle
    /\ lines = LinesIdle
    /\ detection = DetIdle
    /\ sizes = SizesIdle

\* the script reruns with the widget values W
Rerun(W) ==
    /\ widgets' = W
    /\ \E r \in {main(session_state, W, models_present)} :
           /\ session_state' = r.session
           /\ run' = r.run
    /\ UNCHANGED <<models_present, geo, lines, detection, sizes>>

\* the card-width slider moves
SetCardWidth ==
    \E w \in WidthValues :
        Rerun([widgets EXCEPT !.width_px = w, !.button = FALSE])

\* the camera input takes (or clears) a snapshot
TakeSnapshot ==
    \E fr \in Frames \cup {NoSnap} :
        Rerun([widgets EXCEPT !.snap = fr, !.button = FALSE])

\* "Calibrate f" is clicked; the button exists once a rerun has rendered it
ClickCalibrate ==
    /\ run.active
    /\ Rerun([widgets EXCEPT !.button = TRUE])

\* a sidebar number input changes
SetIpd ==
    \E v \in IpdValues : Rerun([widgets EXCEPT !.ipd_mm = v, !.button = FALSE])

SetOffset ==
    \E v \in OffsetValues : Rerun([widgets EXCEPT !.offset_mm = v, !.button = FALSE])

SetKnown ==
    \E v \in KnownValues : Rerun([widgets EXCEPT !.known_mm = v, !.button = FALSE])

\* the model file appears (scripts/download_models.sh) or disappears
ModelFileChange ==
    /\ models_present' = ~models_present
    /\ UNCHANGED <<session_state, widgets, run, geo, lines, detection, sizes>>

Next ==
    \/ SetCardWidth
    \/ TakeSnapshot
    \/ ClickCalibrate
    \/ SetIpd
    \/ SetOffset
    \/ SetKnown
    \/ ModelFileChange

Spec == Init /\ [][Next]_vars

----------------------------------------------------------------------------
(* The geometry functions on their own: calibrate, then measure            *)

\* pixel IPDs: 0, below the divisor floor, at the floor, and above it
GeoIpdValues == {R(0), <<1, 2000000>>, <<1, 1000000>>, R(1), R(2)}
GeoIpdMmValues == {40, 50, 80}
GeoKnownValues == {200, 500}
GeoOffsetValues == {0, 40, 150}

SessionIdle ==
    /\ session_state = [f_px |-> None, eye_to_screen_mm |-> None, card_ppm |-> None]
    /\ widgets = [width_px |-> 220, snap |-> NoSnap, ipd_mm |-> 40, offset_mm |-> 40,
                  known_mm |-> 200, chart_style |-> STYLE_SLOAN,
                  single_letter |-> <<"A">>, button |-> FALSE]
    /\ models_present = FALSE
    /\ run = NoRun

InitGeometry ==
    /\ SessionIdle
    /\ lines = LinesIdle
    /\ detection = DetIdle
    /\ sizes = SizesIdle
    /\ \E x \in GeoIpdValues, d \in GeoKnownValues, i \in GeoIpdMmValues :
          geo = [phase |-> "input", pixel_ipd |-> x, known_mm |-> d, ipd_mm |-> i]

\* line 325 of app.py applied to the inputs
GeoCalibrate ==
    /\ geo.phase = "input"
    /\ geo' = [phase |-> "calibrated", pixel_ipd |-> geo.pixel_ipd,
               known_mm |-> geo.known_mm, ipd_mm |-> geo.ipd_mm,
               f_px |-> focal_length_px(geo.pixel_ipd, R(geo.known_mm), R(geo.ipd_mm))]
    /\ UNCHANGED <<session_state, widgets, models_present, run, lines, detection, sizes>>

\* compute_distance_mm applied to a focal length and a fresh measurement
GeoMeasure ==
    /\ geo.phase = "calibrated"
    /\ \E x \in GeoIpdValues, i \in GeoIpdMmValues, o \in GeoOffsetValues :
          LET dist == compute_distance_mm(x, R(i), geo.f_px, R(o))
          IN  geo' = [phase |-> "measured", pixel_ipd |-> geo.pixel_ipd,
                      known_mm |-> geo.known_mm, ipd_mm |-> geo.ipd_mm,
                      f_px |-> geo.f_px,
                      pixel_ipd2 |-> x, ipd_mm2 |-> i, offset_mm |-> o,
                      cam_to_eye |-> dist[1], eye_to_screen |-> dist[2]]
    /\ UNCHANGED <<session_state, widgets, models_present, run, lines, detection, sizes>>

NextGeometry == GeoCalibrate \/ GeoMeasure

SpecGeometry == InitGeometry /\ [][NextGeometry]_vars

----------------------------------------------------------------------------
(* build_chart_lines on its own, over styles and line counts               *)

MaxLines == 12

\* style names as callers may spell them; the last is an unknown style
LineStyles ==
    ChartStyles \cup
    { CLASSIC_SNELLEN,
      <<"S", "I", "N", "G", "L", "E", " ", "L", "E", "T", "T", "E", "R">>, <<"t", "u", "m", "b", "l", "i", "n", "g", " ", "e">> }

LineLetters == {<<"A">>, <<"B">>}

\* n denominators, cycling through the canonical ones
DenominatorsOf(n) == [k \in 1..n |-> DENOMINATORS[((k - 1) % Len(DENOMINATORS)) + 1]]

InitLines ==
    /\ SessionIdle
    /\ geo = GeoIdle
    /\ detection = DetIdle
    /\ sizes = SizesIdle
    /\ \E st \in LineStyles, n \in 0..MaxLines, c \in LineLetters :
          lines = [phase |-> "input", chart_style |-> st,
                   denominators |-> DenominatorsOf(n), single_letter |-> c,
                   app |-> None, ui |-> None, app_built |-> FALSE, ui_built |-> FALSE]

BuildLinesApp ==
    /\ lines.phase = "input"
    /\ ~lines.app_built
    /\ lines' = [lines EXCEPT
                   !.app = build_chart_lines_app(lines.chart_style, lines.denominators,
                                                 lines.single_letter),
                   !.app_built = TRUE]
    /\ UNCHANGED <<session_state, widgets, models_present, run, geo, detection, sizes>>

BuildLinesUi ==
    /\ lines.phase = "input"
    /\ ~lines.ui_built
    /\ lines' = [lines EXCEPT
                   !.ui = build_chart_lines_ui(lines.chart_style, lines.denominators,
                                               lines.single_letter),
                   !.ui_built = TRUE]
    /\ UNCHANGED <<session_state, widgets, models_present, run, geo, detection, sizes>>

NextLines == BuildLinesApp \/ BuildLinesUi

SpecLines == InitLines /\ [][NextLines]_vars

----------------------------------------------------------------------------
(* The two detectors on their own, over candidate rows and eye rectangles  *)

\* a detector row whose box starts at column bx and whose keypoints follow it
DetFace(bx, score) ==
    <<R(bx), R(50), R(80), R(80), R(bx + 50), R(80), R(bx + 20), R(82), R(bx + 35), R(100),
      R(bx + 25), R(120), R(bx + 45), R(120), Norm(score, 100)>>

\* candidate rows: none; one; the second outscoring the first; the maximum
\* shared by the first and the third
DetFaceRows ==
    { <<>>,
      <<DetFace(100, 90)>>,
      <<DetFace(100, 40), DetFace(300, 70)>>,
      <<DetFace(100, 70), DetFace(300, 40), DetFace(500, 70)>> }

\* eye rectangles (ex, ey, ew, eh): none; one; two, the right one first; three,
\* the smallest first; three of equal area
DetEyeRects ==
    { <<>>,
      << <<40, 20, 24, 24>> >>,
      << <<40, 20, 24, 24>>, <<10, 22, 21, 20>> >>,
      << <<5, 5, 20, 20>>, <<40, 20, 30, 30>>, <<10, 22, 25, 26>> >>,
      << <<50, 20, 20, 30>>, <<10, 20, 30, 20>>, <<30, 20, 25, 24>> >> }

\* face boxes: inside the frame; with fractional coordinates; larger than the
\* frame with its corner above and left of it; left of the frame; over the
\* lower right corner
DetBoxes ==
    { <<R(100), R(50), R(80), R(80)>>,
      <<<<1007, 10>>, <<509, 10>>, <<809, 10>>, R(80)>>,
      <<R(-100), R(-100), R(800), R(600)>>,
      <<R(-5), R(10), R(80), R(80)>>,
      <<R(560), R(400), R(100), R(100)>> }

DetCascades == {"ok", "raises", "empty"}

\* the frames of SpecDetection
DetFrame(faces, raises, cascade, eyes) ==
    [present |-> TRUE, width |-> 640, height |-> 480, faces |-> faces,
     raises |-> raises, cascade |-> cascade, eyes |-> eyes]

\* the cascade reports rectangles that lie inside the region it is given
eyes_inside_roi(frame, box) ==
    \A k \in DOMAIN frame.eyes :
        /\ frame.eyes[k][1] + frame.eyes[k][3] <= roi_of(frame, box)[3]
        /\ frame.eyes[k][2] + frame.eyes[k][4] <= roi_of(frame, box)[4]

InitDetection ==
    /\ SessionIdle
    /\ geo = GeoIdle
    /\ lines = LinesIdle
    /\ sizes = SizesIdle
    /\ \E f \in DetFaceRows, r \in BOOLEAN, c \in DetCascades, e \in DetEyeRects,
          b \in DetBoxes, m \in BOOLEAN :
          /\ eyes_inside_roi(DetFrame(f, r, c, e), b)
          /\ detection = [phase |-> "input", frame |-> DetFrame(f, r, c, e),
                          model_exists |-> m, box |-> b,
                          primary |-> None, primary_run |-> FALSE,
                          eyes |-> None, eyes_run |-> FALSE]

\* run_yunet_cv2 on the frame
RunYunet ==
    /\ detection.phase = "input"
    /\ ~detection.primary_run
    /\ detection' = [detection EXCEPT
                       !.primary = run_yunet_cv2(detection.frame, detection.model_exists),
                       !.primary_run = TRUE]
    /\ UNCHANGED <<session_state, widgets, models_present, run, geo, lines, sizes>>

\* detect_eyes_in_roi on the frame and a face box
DetectEyes ==
    /\ detection.phase = "input"
    /\ ~detection.eyes_run
    /\ detection' = [detection EXCEPT
                       !.eyes = detect_eyes_in_roi(detection.frame, detection.box),
                       !.eyes_run = TRUE]
    /\ UNCHANGED <<session_state, widgets, models_present, run, geo, lines, sizes>>

NextDetection == RunYunet \/ DetectEyes

SpecDetection == InitDetection /\ [][NextDetection]_vars

----------------------------------------------------------------------------
(* The optotype sizing on its own: snellen.py and Step 3 of app.py         *)

\* stored eye-to-screen distances in mm: unset, 0, and positive ones
SizeDistances == {None, R(0), R(1), R(160), R(260), R(312), R(400), R(1000), R(3000)}

\* card widths in px; 0 stands for a scale of 0 px/mm
SizeWidths == {0, 80, 220, 600}

\* px/mm for a card width, as Step 1 computes it
size_ppm(w) == RDiv(R(w), CARD_W_MM)

InitSizing ==
    /\ SessionIdle
    /\ geo = GeoIdle
    /\ lines = LinesIdle
    /\ detection = DetIdle
    /\ \E d \in SizeDistances, w \in SizeWidths :
          sizes = [phase |-> "input", distance_mm |-> d, width_px |-> w,
                   lib |-> None, lib_built |-> FALSE, app |-> None, app_built |-> FALSE]

\* build_snellen_lines on a distance and a scale
BuildSnellenLines ==
    /\ sizes.phase = "input"
    /\ ~sizes.lib_built
    /\ sizes.distance_mm # None
    /\ sizes' = [sizes EXCEPT
                   !.lib = build_snellen_lines(sizes.distance_mm, size_ppm(sizes.width_px),
                                               DENOMINATORS),
                   !.lib_built = TRUE]
    /\ UNCHANGED <<session_state, widgets, models_present, run, geo, lines, detection>>

\* Step 3 of main() on a session holding the distance and the slider's scale
ChartSizes ==
    /\ sizes.phase = "input"
    /\ ~sizes.app_built
    /\ sizes.width_px >= 80
    /\ sizes' = [sizes EXCEPT
                   !.app = letter_px_sizes([f_px |-> None,
                                            eye_to_screen_mm |-> sizes.distance_mm,
                                            card_ppm |-> size_ppm(sizes.width_px)]),
                   !.app_built = TRUE]
    /\ UNCHANGED <<session_state, widgets, models_present, run, geo, lines, detection>>

NextSizing == BuildSnellenLines \/ ChartSizes

SpecSizing == InitSizing /\ [][NextSizing]_vars

----------------------------------------------------------------------------
(* Claims about the calibration session (Spec)                             *)

\* the state of the calibration state machine that a session is in
CalibrationState(sess) ==
    IF sess.eye_to_screen_mm # None THEN "DistanceKnown"
    ELSE IF sess.f_px # None THEN "FocallengthKnown"
    ELSE IF sess.card_ppm # None THEN "ScreenScaleKnown"
    ELSE "Uncalibrated"

\* C1: a rerun in which "Calibrate f" fires with no latest pixel IPD leaves
\* f_px as it was (unset stays unset), leaves eye_to_screen_mm unchanged, stays in
\* the same calibration state and shows the "Take a snapshot first." warning.
C1_CalibrateWithoutIpd ==
    [][(models_present' = models_present /\ run'.clicked /\ run'.pixel_ipd = None) =>
          /\ session_state'.f_px = session_state.f_px
          /\ session_state'.eye_to_screen_mm = session_state.eye_to_screen_mm
          /\ CalibrationState(session_state') = CalibrationState(session_state)
          /\ MSG_SNAPSHOT_FIRST \in run'.messages
          /\ MSG_CALIBRATED \notin run'.messages]_vars

C1_Witness ==
    /\ run.clicked
    /\ run.pixel_ipd = None
    /\ session_state.f_px = None
    /\ MSG_SNAPSHOT_FIRST \in run.messages

\* C2: a rerun whose snapshot yields no pixel IPD (no face found, or the model
\* file missing) leaves f_px and eye_to_screen_mm exactly as they were.
C2_FailedDetectionKeepsCalibration ==
    [][(widgets'.snap.present /\ run'.ran /\ run'.pixel_ipd = None) =>
          /\ session_state'.f_px = session_state.f_px
          /\ session_state'.eye_to_screen_mm = session_state.eye_to_screen_mm]_vars

C2_Witness ==
    /\ widgets.snap.present
    /\ run.active
    /\ run.pixel_ipd = None
    /\ Truthy(session_state.f_px)
    /\ session_state.eye_to_screen_mm # None

\* the value Geometry formula 2 gives for the inputs of the last rerun
C3_Expected ==
    RMax(R(0), RSub(RDiv(RMul(R(widgets.ipd_mm), session_state.f_px),
                         RMax(EPSILON, run.pixel_ipd)),
                    RMax(R(0), R(widgets.offset_mm))))

\* C3: after every rerun in which f_px is known (not unset) and a latest pixel
\* IPD is available (0 included), eye_to_screen_mm holds formula 2 of the current
\* inputs and the session is in DistanceKnown.
C3_ContinuousReestimation ==
    (run.ran /\ session_state.f_px # None /\ run.pixel_ipd # None) =>
        /\ session_state.eye_to_screen_mm = C3_Expected
        /\ CalibrationState(session_state) = "DistanceKnown"

\* C4 as stated: with f_px known and no pixel IPD for the current frame, the
\* "Not calibrated yet" notice is shown.
C4_NoticeShown ==
    (run.active /\ session_state.f_px # None /\ run.pixel_ipd = None) =>
        MSG_NOT_CALIBRATED \in run.messages

\* C4 as amended: a rerun on a snapshot that yields no pixel IPD while f_px is
\* known keeps f_px and does not write eye_to_screen_mm; the "Not calibrated
\* yet" notice appears only if f_px is 0.0, and with a non-zero f_px no such
\* notice is shown.
C4_KnownFocalNoIpd ==
    [][(models_present' = models_present /\ run'.active /\ session_state.f_px # None
          /\ run'.pixel_ipd = None) =>
          /\ session_state'.f_px = session_state.f_px
          /\ session_state'.eye_to_screen_mm = session_state.eye_to_screen_mm
          /\ (MSG_NOT_CALIBRATED \in run'.messages) <=> (session_state.f_px = R(0))]_vars

C4_Witness ==
    /\ run.active
    /\ run.pixel_ipd = None
    /\ Truthy(session_state.f_px)
    /\ MSG_NOT_CALIBRATED \notin run.messages
    /\ MSG_NO_EYES \in run.messages

\* C5 as stated: the chart distance is 3000 mm while eye_to_screen_mm is unset
\* and is the stored eye_to_screen_mm once it is set, 0 included.
C5_StoredDistanceUsed ==
    run.ran =>
        IF session_state.eye_to_screen_mm = None
        THEN run.distance_mm = R(3000)
        ELSE run.distance_mm = session_state.eye_to_screen_mm

\* C5 as amended: the chart distance is 3000 mm while eye_to_screen_mm is unset
\* or 0, and is the stored eye_to_screen_mm whenever that is non-zero.
C5_ChartDistance ==
    run.ran =>
        IF session_state.eye_to_screen_mm = None \/ session_state.eye_to_screen_mm = R(0)
        THEN run.distance_mm = R(3000)
        ELSE run.distance_mm = session_state.eye_to_screen_mm

C5_Witness ==
    /\ run.ran
    /\ session_state.eye_to_screen_mm = R(0)
    /\ run.distance_mm = R(3000)

\* C6 as stated: a rerun triggered by the card-width slider, in whatever
\* calibration state, stores card_ppm = width_px / CARD_W_MM and leaves f_px
\* and eye_to_screen_mm as they were.
C6_SetScreenScaleFrame ==
    [][SetCardWidth =>
          /\ RMul(session_state'.card_ppm, CARD_W_MM) = R(widgets'.width_px)
          /\ session_state'.f_px = session_state.f_px
          /\ session_state'.eye_to_screen_mm = session_state.eye_to_screen_mm]_vars

\* C6 as amended: a rerun triggered by the card-width slider, in whatever
\* calibration state, stores card_ppm = width_px / CARD_W_MM and leaves f_px as
\* it was.  It leaves eye_to_screen_mm as it was when Step 2 is skipped in this
\* rerun or ran in the previous one; otherwise (Step 2 runs again after a rerun
\* that skipped it) eye_to_screen_mm either stays or is overwritten with
\* formula 2 of the current snapshot and sidebar inputs.
C6_ScreenScale ==
    [][SetCardWidth =>
          /\ RMul(session_state'.card_ppm, CARD_W_MM) = R(widgets'.width_px)
          /\ session_state'.f_px = session_state.f_px
          /\ (~run'.active \/ run.active) =>
                session_state'.eye_to_screen_mm = session_state.eye_to_screen_mm
          /\ session_state'.eye_to_screen_mm # session_state.eye_to_screen_mm =>
                /\ Truthy(session_state.f_px)
                /\ run'.pixel_ipd # None
                /\ session_state'.eye_to_screen_mm =
                      compute_distance_mm(run'.pixel_ipd, R(widgets'.ipd_mm),
                                          session_state.f_px, R(widgets'.offset_mm))[2]]_vars

\* a session rerun with the slider at 600 px, the stored distance being the
\* one of the snapshot under the current offset
C6_Witness ==
    /\ run.active
    /\ ~run.clicked
    /\ CalibrationState(session_state) = "DistanceKnown"
    /\ session_state.f_px = R(25)
    /\ session_state.eye_to_screen_mm = R(50)
    /\ widgets.offset_mm = 150
    /\ widgets.width_px = 600
    /\ session_state.card_ppm = <<750, 107>>

\* C15: in every reachable session eye_to_screen_mm is set only if f_px is set,
\* and no step (snapshot, failed detection, sidebar or slider change, failed
\* calibration) returns f_px or eye_to_screen_mm to unset once it has a value.
C15_NeverUnset ==
    /\ [](session_state.eye_to_screen_mm # None => session_state.f_px # None)
    /\ [][/\ session_state.f_px # None => session_state'.f_px # None
          /\ session_state.eye_to_screen_mm # None =>
                session_state'.eye_to_screen_mm # None]_vars

C15_Witness ==
    /\ run.clicked
    /\ run.pixel_ipd = None
    /\ MSG_SNAPSHOT_FIRST \in run.messages
    /\ session_state.f_px # None
    /\ session_state.eye_to_screen_mm # None

\* what C16 expects run_yunet_cv2 to return
C16_BoxWithFiveKeypoints(result) ==
    \/ result = <<None, None>>
    \/ /\ result[1] # None
       /\ Len(result[1]) = 4
       /\ Len(result[2]) = 5

\* C16: run_yunet_cv2 returns either (None, None) or a box of four numbers
\* with exactly five keypoints, for the snapshot of the session and for every
\* snapshot it may take next, a throwing detector included, with and without
\* the model file; and no rerun of main() enters the branch that calls
\* detect_eyes_in_roi.
C16_FallbackNeverRuns ==
    /\ \A fr \in {widgets.snap} \cup Frames
                   \cup {Snap(<<Face(R(143), R(84), R(140), R(80), 90)>>, TRUE)} :
          \A m \in BOOLEAN : C16_BoxWithFiveKeypoints(run_yunet_cv2(fr, m))
    /\ run.ran => ~run.fallback

C16_Witness ==
    /\ run.active
    /\ Len(widgets.snap.faces) = 2
    /\ run.pixel_ipd = R(3)
    /\ ~run.fallback

\* C17 as stated: after a rerun in which "Calibrate f" fired with a pixel IPD
\* > 0, eye_to_screen_mm is max(0, known_mm - offset_mm).
C17_AnyPositiveIpd ==
    (run.clicked /\ run.pixel_ipd # None /\ RLess(R(0), run.pixel_ipd)) =>
        session_state.eye_to_screen_mm =
            RMax(R(0), RSub(R(widgets.known_mm), R(widgets.offset_mm)))

\* C17 as amended: after a rerun in which "Calibrate f" fired with a pixel IPD
\* >= 1e-6, the new f_px is pixel_ipd * known_mm / ipd_mm and eye_to_screen_mm
\* is max(0, known_mm - offset_mm), whatever the pixel IPD and the assumed IPD.
C17_CalibrateThenEstimate ==
    (run.clicked /\ run.pixel_ipd # None /\ ~RLess(run.pixel_ipd, EPSILON)) =>
        /\ RMul(session_state.f_px, R(widgets.ipd_mm)) =
              RMul(run.pixel_ipd, R(widgets.known_mm))
        /\ session_state.eye_to_screen_mm =
              RMax(R(0), RSub(R(widgets.known_mm), R(widgets.offset_mm)))

C17_Witness ==
    /\ run.clicked
    /\ run.pixel_ipd = R(3)
    /\ widgets.ipd_mm = 50
    /\ widgets.known_mm = 300
    /\ widgets.offset_mm = 40
    /\ session_state.f_px = R(18)
    /\ session_state.eye_to_screen_mm = R(260)
    /\ MSG_CALIBRATED \in run.messages

----------------------------------------------------------------------------
(* Claims about the geometry functions (SpecGeometry)                      *)

\* C7 as stated: for every pixel IPD X > 0, calibrating at distance D with
\* assumed IPD I gives f_px = X*D/I, and measuring with the same X and I and
\* offset 0 returns cam_to_eye = D and eye_to_screen = D.
C7_RoundTripAnyPositive ==
    (/\ geo.phase = "measured"
     /\ RLess(R(0), geo.pixel_ipd)
     /\ geo.pixel_ipd2 = geo.pixel_ipd
     /\ geo.ipd_mm2 = geo.ipd_mm
     /\ geo.offset_mm = 0) =>
        /\ RMul(geo.f_px, R(geo.ipd_mm)) = RMul(geo.pixel_ipd, R(geo.known_mm))
        /\ geo.cam_to_eye = R(geo.known_mm)
        /\ geo.eye_to_screen = R(geo.known_mm)

\* C7 as amended: the round trip holds for every pixel IPD X >= 1e-6, the floor
\* of the divisor.
C7_RoundTrip ==
    (/\ geo.phase = "measured"
     /\ ~RLess(geo.pixel_ipd, EPSILON)
     /\ geo.pixel_ipd2 = geo.pixel_ipd
     /\ geo.ipd_mm2 = geo.ipd_mm
     /\ geo.offset_mm = 0) =>
        /\ RMul(geo.f_px, R(geo.ipd_mm)) = RMul(geo.pixel_ipd, R(geo.known_mm))
        /\ geo.cam_to_eye = R(geo.known_mm)
        /\ geo.eye_to_screen = R(geo.known_mm)

C7_Witness ==
    /\ geo.phase = "measured"
    /\ geo.pixel_ipd = EPSILON
    /\ geo.pixel_ipd2 = geo.pixel_ipd
    /\ geo.ipd_mm2 = geo.ipd_mm
    /\ geo.offset_mm = 0
    /\ geo.known_mm = 500
    /\ geo.cam_to_eye = R(500)

\* C8: for pixel IPD > 0, assumed IPD > 0, f_px > 0 and offset >= 0 the returned
\* eye_to_screen is >= 0 and is cam_to_eye - offset floored at 0; for pixel
\* IPD = 0 the divisor is 1e-6, so cam_to_eye is the finite ipd * f_px * 10^6.
C8_DistanceFloored ==
    geo.phase = "measured" =>
        /\ (RLess(R(0), geo.pixel_ipd2) /\ RLess(R(0), geo.f_px)) =>
              /\ ~RLess(geo.eye_to_screen, R(0))
              /\ geo.eye_to_screen =
                    (IF RLess(geo.cam_to_eye, R(geo.offset_mm))
                     THEN R(0)
                     ELSE RSub(geo.cam_to_eye, R(geo.offset_mm)))
        /\ geo.pixel_ipd2 = R(0) =>
              /\ RMul(geo.cam_to_eye, EPSILON) = RMul(R(geo.ipd_mm2), geo.f_px)
              /\ ~RLess(geo.eye_to_screen, R(0))

C8_Witness ==
    /\ geo.phase = "measured"
    /\ RLess(R(0), geo.pixel_ipd2)
    /\ RLess(R(0), geo.f_px)
    /\ RLess(geo.cam_to_eye, R(geo.offset_mm))
    /\ geo.eye_to_screen = R(0)

----------------------------------------------------------------------------
(* Claims about build_chart_lines (SpecLines)                              *)

\* the eight classic lines as the specification lists them
C9_Canonical ==
    << <<"E">>,
       <<"F", "P">>,
       <<"T", "O", "Z">>,
       <<"L", "P", "E", "D">>,
       <<"P", "E", "C", "F", "D">>,
       <<"E", "D", "F", "C", "Z", "P">>,
       <<"F", "E", "L", "O", "P", "Z", "D">>,
       <<"D", "E", "F", "P", "O", "T", "E", "C">> >>

\* what the claim expects of a classic result for n denominators: line k is
\* canonical line k, the last canonical line standing in past the eighth
C9_Expected(result, n) ==
    /\ Len(result) = n
    /\ \A k \in 1..n : result[k] = C9_Canonical[IF k <= 8 THEN k ELSE 8]
    /\ \A k \in 1..n : \A j \in 1..Len(result[k]) : result[k][j] # "0"

\* C9: with the classic style both build_chart_lines give, for n denominators,
\* n lines: the first n canonical lines when n <= 8 (all eight for the eight
\* canonical denominators), and the eight lines followed by repeats of the last
\* one when n > 8; no line holds the digit zero, and app.py and ui.py agree.
C9_ClassicLines ==
    lines.chart_style \in {STYLE_CLASSIC, CLASSIC_SNELLEN} =>
        /\ lines.app_built => C9_Expected(lines.app, Len(lines.denominators))
        /\ lines.ui_built => C9_Expected(lines.ui, Len(lines.denominators))
        /\ (lines.app_built /\ lines.ui_built) => lines.app = lines.ui

C9_Witness ==
    /\ lines.chart_style = STYLE_CLASSIC
    /\ lines.app_built
    /\ lines.ui_built
    /\ Len(lines.denominators) = 10
    /\ lines.app[7] = <<"F", "E", "L", "O", "P", "Z", "D">>
    /\ lines.ui[10] = <<"D", "E", "F", "P", "O", "T", "E", "C">>

\* clamp(2 + i, 2, 10)
C10_Clamp(i) == IF 2 + i < 2 THEN 2 ELSE IF 2 + i > 10 THEN 10 ELSE 2 + i

\* what the claim expects of a non-classic result
C10_Expected(result, style, n, single_letter) ==
    /\ Len(result) = n
    /\ \A i \in 0..(n - 1) :
          /\ Len(result[i + 1]) = C10_Clamp(i)
          /\ \A j \in 0..(Len(result[i + 1]) - 1) :
                result[i + 1][j + 1] =
                    (IF style \in {STYLE_SINGLE, <<"S", "I", "N", "G", "L", "E", " ", "L", "E", "T", "T", "E", "R">>}
                     THEN single_letter[1]
                     ELSE (<<"C", "D", "H", "K", "N", "O", "R", "S", "V", "Z">>)[((j + i) % 10) + 1])

\* C10: with a non-classic style both build_chart_lines give one line per
\* denominator; line i has clamp(2 + i, 2, 10) characters, all of them the
\* single letter in the single-letter style, and otherwise the j-th being
\* "CDHKNORSVZ"[(j + i) mod 10].
C10_OtherStyles ==
    lines.chart_style \notin {STYLE_CLASSIC, CLASSIC_SNELLEN} =>
        /\ lines.app_built =>
              C10_Expected(lines.app, lines.chart_style, Len(lines.denominators),
                           lines.single_letter)
        /\ lines.ui_built =>
              C10_Expected(lines.ui, lines.chart_style, Len(lines.denominators),
                           lines.single_letter)

C10_Witness ==
    /\ lines.chart_style = STYLE_SLOAN
    /\ lines.app_built
    /\ lines.ui_built
    /\ Len(lines.denominators) = 12
    /\ lines.app[12] = <<"D", "H", "K", "N", "O", "R", "S", "V", "Z", "C">>
    /\ lines.ui[1] = <<"C", "D">>

----------------------------------------------------------------------------
(* Claims about the detectors (SpecDetection)                              *)

\* C11: when the detector yields at least one candidate, run_yunet_cv2 returns
\* the box and the five keypoints of one candidate, and no candidate has a
\* strictly higher score than that one.
C11_BestCandidate ==
    (/\ detection.primary_run
     /\ detection.model_exists
     /\ ~detection.frame.raises
     /\ Len(detection.frame.faces) > 0) =>
        \E i \in DOMAIN detection.frame.faces :
            LET face == detection.frame.faces[i]
            IN  /\ detection.primary[1] = SubSeq(face, 1, 4)
                /\ Len(detection.primary[2]) = 5
                /\ \A k \in 1..5 :
                      detection.primary[2][k] = <<face[3 + 2 * k], face[4 + 2 * k]>>
                /\ \A j \in DOMAIN detection.frame.faces :
                      ~RLess(face[15], detection.frame.faces[j][15])

C11_Witness ==
    /\ detection.primary_run
    /\ detection.model_exists
    /\ ~detection.frame.raises
    /\ Len(detection.frame.faces) = 2
    /\ detection.primary[1] = <<R(300), R(50), R(80), R(80)>>
    /\ detection.primary[2][1] = <<R(350), R(80)>>

\* C12: neither detector lets an exception out: run_yunet_cv2 returns
\* (None, None) when the model file is missing or the detector throws, and
\* detect_eyes_in_roi returns None when the eye cascade cannot be built or
\* loaded or fails to run.
C12_NeverPropagates ==
    /\ detection.primary_run =>
          /\ detection.primary # Raised
          /\ (~detection.model_exists \/ detection.frame.raises) =>
                detection.primary = <<None, None>>
    /\ detection.eyes_run =>
          /\ detection.eyes # Raised
          /\ detection.frame.cascade # "ok" => detection.eyes = None

\* the centre of an eye rectangle in frame coordinates, the rectangle being
\* relative to the region of interest cut out for the box
C13_Centre(frame, box, rect) ==
    <<RAdd(R(roi_of(frame, box)[1] + rect[1]), Norm(rect[3], 2)),
      RAdd(R(roi_of(frame, box)[2] + rect[2]), Norm(rect[4], 2))>>

\* C13: when the eye cascade reports n >= 2 rectangles for the face box,
\* detect_eyes_in_roi returns exactly two points: the centres, in frame
\* coordinates, of two rectangles that no third one exceeds in area, the point
\* with the smaller x first; with fewer than two rectangles it returns None.
C13_TwoLargestEyes ==
    (/\ detection.eyes_run
     /\ detection.frame.cascade = "ok"
     /\ roi_of(detection.frame, detection.box)[3] > 0
     /\ roi_of(detection.frame, detection.box)[4] > 0) =>
        IF Len(detection.frame.eyes) < 2
        THEN detection.eyes = None
        ELSE /\ Len(detection.eyes) = 2
             /\ ~RLess(detection.eyes[2][1], detection.eyes[1][1])
             /\ \E i, j \in DOMAIN detection.frame.eyes :
                   LET rects == detection.frame.eyes
                   IN  /\ i # j
                       /\ \A k \in DOMAIN rects \ {i, j} :
                             /\ rects[k][3] * rects[k][4] <= rects[i][3] * rects[i][4]
                             /\ rects[k][3] * rects[k][4] <= rects[j][3] * rects[j][4]
                       /\ {detection.eyes[1], detection.eyes[2]} =
                             {C13_Centre(detection.frame, detection.box, rects[i]),
                              C13_Centre(detection.frame, detection.box, rects[j])}

----------------------------------------------------------------------------
(* Claims about the optotype sizing (SpecSizing)                           *)

\* the rows are labelled "6/60", "6/48", ..., "6/6" in this order and their
\* pixel heights strictly decrease
C14_RowsDecrease(rows) ==
    /\ Len(rows) = 8
    /\ <<rows[1][1], rows[2][1], rows[3][1], rows[4][1]>> =
          << <<"6", "/", "6", "0">>, <<"6", "/", "4", "8">>, <<"6", "/", "3", "6">>,
             <<"6", "/", "2", "4">> >>
    /\ <<rows[5][1], rows[6][1], rows[7][1], rows[8][1]>> =
          << <<"6", "/", "1", "8">>, <<"6", "/", "1", "2">>, <<"6", "/", "9">>,
             <<"6", "/", "6">> >>
    /\ \A k \in 1..7 : RLess(rows[k + 1][2], rows[k][2])

\* C14: for a distance > 0 the letter height in mm is strictly smaller for the
\* smaller of two canonical denominators, and with a scale > 0 px/mm the rows
\* that build_snellen_lines and Step 3 of app.py produce for 60, 48, 36, 24,
\* 18, 12, 9, 6 are labelled "6/<denominator>" in that order with strictly
\* decreasing pixel heights.
C14_SizingMonotonic ==
    /\ (sizes.phase = "input" /\ sizes.distance_mm # None /\ RLess(R(0), sizes.distance_mm)) =>
          \A k1, k2 \in DOMAIN DENOMINATORS :
              DENOMINATORS[k1] < DENOMINATORS[k2] =>
                  RLess(snellen_letter_height_mm(sizes.distance_mm, DENOMINATORS[k1]),
                        snellen_letter_height_mm(sizes.distance_mm, DENOMINATORS[k2]))
    /\ (sizes.phase = "input" /\ sizes.lib_built /\ RLess(R(0), sizes.distance_mm)
          /\ sizes.width_px > 0) => C14_RowsDecrease(sizes.lib)
    /\ (sizes.phase = "input" /\ sizes.app_built) => C14_RowsDecrease(sizes.app)

C14_Witness ==
    /\ sizes.phase = "input"
    /\ sizes.lib_built
    /\ sizes.app_built
    /\ sizes.distance_mm = R(260)
    /\ sizes.width_px = 220
    /\ sizes.lib = sizes.app
    /\ sizes.app[8] = <<<<"6", "/", "6">>, RMul(<<18902, 50000>>, <<275, 107>>)>>

============================================================================
